---- MODULE Spec2Model ----
(***************************************************************************)
(* crt-search.c: fetch common-name identities from crt.sh, deduplicate,    *)
(* partition into wildcard / normal names, sort, and write them to stdout  *)
(* and to <domain>_identities.txt.                                         *)
(*                                                                         *)
(* C strings are sequences of bytes 1..255 (the terminating NUL is the     *)
(* position after the last element).  The database and the file system   *)
(* are the environment: a connection attempt, the query and each write to  *)
(* the output file succeed or fail nondeterministically; whether a file    *)
(* can be opened follows from the state of the directory.  Standard output *)
(* and standard error accept what is printed, memory allocation and the    *)
(* compilation of the constant regular expression succeed.                 *)
(***************************************************************************)
EXTENDS Integers, Sequences, FiniteSets, TLC

VARIABLES
    pc,            \* position of main()
    argc,          \* argument count
    domain,        \* argv[1]
    output_file,   \* char output_file[MAX_DOMAIN_LEN + 20]
    exit_code,     \* -1 while running, else the process exit status
    stderr,        \* entries written to standard error
    log,           \* entries appended to script_errors.log by this run
    log_exists,    \* script_errors.log exists in the current directory
    cwdWritable,   \* the current directory allows creating files
    out_exists,    \* the output file exists
    out_modified,  \* the output file was created or truncated by this run
    file_lines,    \* lines this run has put into the output file
    stdout_lines,  \* identity lines handed to printf, in order
    saved_msg,     \* "Output saved to ..." was printed
    probeConn,     \* PGconn of check_connectivity: none, open, bad, closed
    conn,          \* PGconn of main: none, open, bad, closed
    res,           \* rows of the PGresult
    raw, unique, wild, norm,   \* the arrays of main
    i,             \* index of the output loops
    trace          \* pipeline stages completed so far, in order

vars == <<pc, argc, domain, output_file, exit_code, stderr, log, log_exists,
          cwdWritable, out_exists, out_modified, file_lines, stdout_lines,
          saved_msg, probeConn, conn, res, raw, unique, wild, norm, i, trace>>

(***************************************************************************)
(* Bounds of the model.                                                    *)
(***************************************************************************)
MaxDomLen   == 1    \* length of the short domain arguments enumerated
MaxRows     == 2    \* rows of a query result in the whole-program model
ProcMaxRows == 3    \* rows of a query result in the result-processing model

(***************************************************************************)
(* Program constants.                                                      *)
(***************************************************************************)
MAX_DOMAIN_LEN == 256
MAX_IDENTITIES == 1000000
DOMAIN_MAX     == 255

\* "_identities.txt"
IdentitiesSuffix ==
    <<95, 105, 100, 101, 110, 116, 105, 116, 105, 101, 115, 46, 116, 120, 116>>

\* "*."
WildPrefix == <<42, 46>>

(***************************************************************************)
(* Inputs.                                                                 *)
(***************************************************************************)
\* 'a', '/' (outside the allowed set), ';' (in the strpbrk set)
DomAlphabet == {97, 47, 59}

Domains == UNION {[1..k -> DomAlphabet] : k \in 0..MaxDomLen}

\* the longest domain the length rule admits, and the shortest it refuses
LongDomains ==
    {[k \in 1..DOMAIN_MAX |-> 97], [k \in 1..(DOMAIN_MAX + 1) |-> 97]}

\* "", "*", "*.", "*.a", "*.b", "*a", "a", "b"
IdentityPool ==
    {<<>>, <<42>>, <<42, 46>>, <<42, 46, 97>>, <<42, 46, 98>>, <<42, 97>>,
     <<97>>, <<98>>}

\* a row of the single result column: SQL NULL or a text value
RowValues ==
    {[isnull |-> TRUE, value |-> <<>>]}
      \cup {[isnull |-> FALSE, value |-> v] : v \in IdentityPool}

RowSeqs(n) == UNION {[1..k -> RowValues] : k \in 0..n}

(***************************************************************************)
(* libc string functions.                                                  *)
(***************************************************************************)
CharAt(s, k) == IF k <= Len(s) THEN s[k] ELSE 0

RECURSIVE StrNCmpFrom(_, _, _, _)
StrNCmpFrom(a, b, k, n) ==
    IF k > n THEN 0
    ELSE IF CharAt(a, k) # CharAt(b, k) THEN CharAt(a, k) - CharAt(b, k)
    ELSE IF CharAt(a, k) = 0 THEN 0
    ELSE StrNCmpFrom(a, b, k + 1, n)

strncmp(a, b, n) == StrNCmpFrom(a, b, 1, n)

strcmp(a, b) == StrNCmpFrom(a, b, 1, Len(a) + Len(b) + 1)

\* strpbrk(domain, "'\";`") != NULL
strpbrk_quotes(s) == \E k \in 1..Len(s) : s[k] \in {39, 34, 59, 96}

\* regexec of ^[a-zA-Z0-9.-]*$ returns 0
regex_match(s) ==
    \A k \in 1..Len(s) :
        s[k] \in (97..122) \cup (65..90) \cup (48..57) \cup {46, 45}

\* snprintf(output_file, sizeof(output_file), "%s_identities.txt", domain)
snprintf_output_file(d) ==
    LET full == d \o IdentitiesSuffix
        cap  == MAX_DOMAIN_LEN + 20 - 1
    IN  IF Len(full) <= cap THEN full ELSE SubSeq(full, 1, cap)

\* strrchr(output_file, '/'): index of the last '/', 0 when there is none
strrchr_slash(s) ==
    IF \E k \in 1..Len(s) : s[k] = 47
    THEN CHOOSE k \in 1..Len(s) :
             s[k] = 47 /\ \A m \in (k + 1)..Len(s) : s[m] # 47
    ELSE 0

(***************************************************************************)
(* fatal_error                                                             *)
(***************************************************************************)
Entry(msg) == [ts |-> TRUE, msg |-> msg]

\* fopen(LOG_FILE, "a") succeeds
LogOpens == log_exists \/ cwdWritable

fatal_error(msg) ==
    /\ stderr' = Append(stderr, Entry(msg))
    /\ IF LogOpens
       THEN log' = Append(log, Entry(msg)) /\ log_exists' = TRUE
       ELSE UNCHANGED <<log, log_exists>>
    /\ exit_code' = 1
    /\ pc' = "exit"

(***************************************************************************)
(* validate_domain                                                         *)
(***************************************************************************)
LengthOk_offByOne(d) == Len(d) # 0 /\ Len(d) <= DOMAIN_MAX + 1

LengthOk(d) == Len(d) # 0 /\ Len(d) <= DOMAIN_MAX

(***************************************************************************)
(* Result processing                                                       *)
(***************************************************************************)
PQgetvalue(row) == IF row.isnull THEN <<>> ELSE row.value

\* if (val && *val)
StoresRow_any(val) == TRUE

StoresRow(val) == Len(val) > 0

RECURSIVE CollectLoop(_, _, _)
CollectLoop(rows, k, acc) ==
    IF k > Len(rows) \/ Len(acc) >= MAX_IDENTITIES THEN acc
    ELSE CollectLoop(rows, k + 1,
                     IF StoresRow(PQgetvalue(rows[k]))
                     THEN Append(acc, PQgetvalue(rows[k])) ELSE acc)

IsDup_lastOnly(uniq, s) ==
    Len(uniq) > 0 /\ strcmp(s, uniq[Len(uniq)]) = 0

\* the inner loop of the uniqueness pass
IsDup(uniq, s) == \E k \in 1..Len(uniq) : strcmp(s, uniq[k]) = 0

RECURSIVE DedupLoop(_, _, _)
DedupLoop(r, k, uniq) ==
    IF k > Len(r) THEN uniq
    ELSE DedupLoop(r, k + 1,
                   IF IsDup(uniq, r[k]) THEN uniq ELSE Append(uniq, r[k]))

IsWildcard_firstCharOnly(s) == strncmp(s, WildPrefix, 1) = 0

IsWildcard(s) == strncmp(s, WildPrefix, 2) = 0

RECURSIVE PartitionLoop(_, _, _, _)
PartitionLoop(u, k, w, n) ==
    IF k > Len(u) THEN [wild |-> w, norm |-> n]
    ELSE IF IsWildcard(u[k])
         THEN PartitionLoop(u, k + 1, Append(w, u[k]), n)
         ELSE PartitionLoop(u, k + 1, w, Append(n, u[k]))

Swap(arr, a, b) == [arr EXCEPT ![a] = arr[b], ![b] = arr[a]]

RECURSIVE InnerLoop(_, _, _)
InnerLoop(arr, a, b) ==
    IF b > Len(arr) THEN arr
    ELSE InnerLoop(IF strcmp(arr[a], arr[b]) > 0 THEN Swap(arr, a, b) ELSE arr,
                   a, b + 1)

RECURSIVE OuterLoop(_, _, _)
OuterLoop(arr, a, last) ==
    IF a > last THEN arr
    ELSE OuterLoop(InnerLoop(arr, a, a + 1), a + 1, last)

bubble_sort_shortOuter(arr) == OuterLoop(arr, 1, Len(arr) - 2)

\* indices are 1-based here: i runs over 1..n-1, j over i+1..n
bubble_sort(arr) == OuterLoop(arr, 1, Len(arr) - 1)

(***************************************************************************)
(* The program                                                             *)
(***************************************************************************)
InitCommon ==
    /\ exit_code = -1
    /\ stderr = <<>>
    /\ log = <<>>
    /\ out_modified = FALSE
    /\ file_lines = <<>>
    /\ stdout_lines = <<>>
    /\ saved_msg = FALSE
    /\ raw = <<>> /\ unique = <<>> /\ wild = <<>> /\ norm = <<>>
    /\ i = 0

InitWith(domains) ==
    /\ InitCommon
    /\ pc = "start"
    /\ output_file = <<>>
    /\ \/ argc = 2 /\ domain \in domains
       \/ argc \in {1, 3} /\ domain = <<>>
    /\ log_exists \in BOOLEAN
    /\ cwdWritable \in BOOLEAN
    /\ out_exists \in BOOLEAN
    /\ probeConn = "none"
    /\ conn = "none"
    /\ res = <<>>
    /\ trace = <<>>

Init == InitWith(Domains)

\* lines 104-111
Start ==
    /\ pc = "start"
    /\ IF argc # 2
       THEN /\ stderr' = Append(stderr, [ts |-> FALSE, msg |-> "Usage"])
            /\ exit_code' = 1
            /\ pc' = "exit"
            /\ UNCHANGED output_file
       ELSE /\ output_file' = snprintf_output_file(domain)
            /\ pc' = "validate"
            /\ UNCHANGED <<stderr, exit_code>>
    /\ UNCHANGED <<argc, domain, log, log_exists, cwdWritable, out_exists,
                   out_modified, file_lines, stdout_lines, saved_msg,
                   probeConn, conn, res, raw, unique, wild, norm, i, trace>>

\* line 113, validate_domain
ValidateDomain ==
    /\ pc = "validate"
    /\ IF ~LengthOk(domain)
       THEN fatal_error("Domain length must be 1-255 characters")
            /\ UNCHANGED trace
       ELSE IF strpbrk_quotes(domain)
       THEN fatal_error("Domain contains invalid characters")
            /\ UNCHANGED trace
       ELSE IF ~regex_match(domain)
       THEN fatal_error("Domain must contain only alphanumeric, dot or hyphen")
            /\ UNCHANGED trace
       ELSE /\ pc' = "probe"
            /\ trace' = Append(trace, "validate")
            /\ UNCHANGED <<stderr, log, log_exists, exit_code>>
    /\ UNCHANGED <<argc, domain, output_file, cwdWritable, out_exists,
                   out_modified, file_lines, stdout_lines, saved_msg,
                   probeConn, conn, res, raw, unique, wild, norm, i>>

CheckConnectivity_ignoresFailure ==
    /\ pc = "probe"
    /\ \E ok \in BOOLEAN :
          /\ probeConn' = IF ok THEN "closed" ELSE "bad"
          /\ trace' = IF ok THEN Append(trace, "probe") ELSE trace
    /\ pc' = "dircheck"
    /\ UNCHANGED <<stderr, log, log_exists, exit_code>>
    /\ UNCHANGED <<argc, domain, output_file, cwdWritable, out_exists,
                   out_modified, file_lines, stdout_lines, saved_msg,
                   conn, res, raw, unique, wild, norm, i>>

\* line 114, check_connectivity
CheckConnectivity ==
    /\ pc = "probe"
    /\ \E ok \in BOOLEAN :
          IF ok
          THEN /\ probeConn' = "closed"
               /\ trace' = Append(trace, "probe")
               /\ pc' = "dircheck"
               /\ UNCHANGED <<stderr, log, log_exists, exit_code>>
          ELSE /\ probeConn' = "bad"
               /\ fatal_error("PQerrorMessage")
               /\ UNCHANGED trace
    /\ UNCHANGED <<argc, domain, output_file, cwdWritable, out_exists,
                   out_modified, file_lines, stdout_lines, saved_msg,
                   conn, res, raw, unique, wild, norm, i>>

\* stat(path) == 0 && S_ISDIR && access(path, W_OK) == 0; the file system of
\* the model holds the current directory only, reachable by the path "."
StatWritableDir(path) == path = <<46>> /\ cwdWritable

\* lines 116-128
CheckOutputDir ==
    /\ pc = "dircheck"
    /\ LET slash == strrchr_slash(output_file)
       IN  IF slash # 0
              /\ ~StatWritableDir(SubSeq(output_file, 1, slash - 1))
           THEN fatal_error("Output directory is not writable")
           ELSE /\ pc' = "connect"
                /\ UNCHANGED <<stderr, log, log_exists, exit_code>>
    /\ UNCHANGED <<argc, domain, output_file, cwdWritable, out_exists,
                   out_modified, file_lines, stdout_lines, saved_msg,
                   probeConn, conn, res, raw, unique, wild, norm, i, trace>>

\* lines 133-136
Connect ==
    /\ pc = "connect"
    /\ \E ok \in BOOLEAN :
          IF ok
          THEN /\ conn' = "open"
               /\ pc' = "query"
               /\ UNCHANGED <<stderr, log, log_exists, exit_code>>
          ELSE /\ conn' = "bad"
               /\ fatal_error("PQerrorMessage")
    /\ UNCHANGED <<argc, domain, output_file, cwdWritable, out_exists,
                   out_modified, file_lines, stdout_lines, saved_msg,
                   probeConn, res, raw, unique, wild, norm, i, trace>>

\* lines 146-151
ExecQuery ==
    /\ pc = "query"
    /\ \/ /\ \E rows \in RowSeqs(MaxRows) : res' = rows
          /\ pc' = "collect"
          /\ trace' = Append(trace, "query")
          /\ UNCHANGED <<stderr, log, log_exists, exit_code>>
       \/ /\ fatal_error("PQerrorMessage")
          /\ UNCHANGED <<res, trace>>
    /\ UNCHANGED <<argc, domain, output_file, cwdWritable, out_exists,
                   out_modified, file_lines, stdout_lines, saved_msg,
                   probeConn, conn, raw, unique, wild, norm, i>>

\* lines 153-164
CollectRows ==
    /\ pc = "collect"
    /\ raw' = CollectLoop(res, 1, <<>>)
    /\ conn' = "closed"
    /\ pc' = "dedup"
    /\ UNCHANGED <<argc, domain, output_file, exit_code, stderr, log,
                   log_exists, cwdWritable, out_exists, out_modified,
                   file_lines, stdout_lines, saved_msg, probeConn, res,
                   unique, wild, norm, i, trace>>

\* lines 166-177
Deduplicate ==
    /\ pc = "dedup"
    /\ unique' = DedupLoop(raw, 1, <<>>)
    /\ pc' = "partition"
    /\ UNCHANGED <<argc, domain, output_file, exit_code, stderr, log,
                   log_exists, cwdWritable, out_exists, out_modified,
                   file_lines, stdout_lines, saved_msg, probeConn, conn, res,
                   raw, wild, norm, i, trace>>

\* lines 179-189
PartitionIdentities ==
    /\ pc = "partition"
    /\ LET p == PartitionLoop(unique, 1, <<>>, <<>>)
       IN  wild' = p.wild /\ norm' = p.norm
    /\ pc' = "sort"
    /\ UNCHANGED <<argc, domain, output_file, exit_code, stderr, log,
                   log_exists, cwdWritable, out_exists, out_modified,
                   file_lines, stdout_lines, saved_msg, probeConn, conn, res,
                   raw, unique, i, trace>>

\* lines 191-193
SortPartitions ==
    /\ pc = "sort"
    /\ wild' = bubble_sort(wild)
    /\ norm' = bubble_sort(norm)
    /\ pc' = "open"
    /\ trace' = Append(trace, "process")
    /\ UNCHANGED <<argc, domain, output_file, exit_code, stderr, log,
                   log_exists, cwdWritable, out_exists, out_modified,
                   file_lines, stdout_lines, saved_msg, probeConn, conn, res,
                   raw, unique, i>>

\* fopen(output_file, "w") succeeds: the file exists, or it can be created
OutputOpens == out_exists \/ cwdWritable

\* the loop that runs after position n of the wildcard loop
AfterWild(n) ==
    IF n < Len(wild) THEN "write_wild"
    ELSE IF Len(norm) > 0 THEN "write_norm" ELSE "close"

\* lines 196-197
OpenOutput ==
    /\ pc = "open"
    /\ IF OutputOpens
       THEN /\ out_exists' = TRUE
            /\ out_modified' = TRUE
            /\ file_lines' = <<>>
            /\ i' = 0
            /\ pc' = AfterWild(0)
            /\ UNCHANGED <<stderr, log, log_exists, exit_code>>
       ELSE /\ fatal_error("Cannot create output file")
            /\ UNCHANGED <<out_exists, out_modified, file_lines, i>>
    /\ UNCHANGED <<argc, domain, output_file, cwdWritable, stdout_lines,
                   saved_msg, probeConn, conn, res, raw, unique, wild, norm,
                   trace>>

\* lines 199-202: the return values of printf and fprintf are not examined;
\* a write to the file that fails leaves the line out of the file
WriteWild ==
    /\ pc = "write_wild"
    /\ i < Len(wild)
    /\ stdout_lines' = Append(stdout_lines, wild[i + 1])
    /\ \E ok \in BOOLEAN :
          file_lines' = IF ok THEN Append(file_lines, wild[i + 1])
                        ELSE file_lines
    /\ i' = IF i + 1 < Len(wild) THEN i + 1 ELSE 0
    /\ pc' = AfterWild(i + 1)
    /\ UNCHANGED <<argc, domain, output_file, exit_code, stderr, log,
                   log_exists, cwdWritable, out_exists, out_modified,
                   saved_msg, probeConn, conn, res, raw, unique, wild, norm,
                   trace>>

\* lines 203-206
WriteNorm ==
    /\ pc = "write_norm"
    /\ i < Len(norm)
    /\ stdout_lines' = Append(stdout_lines, norm[i + 1])
    /\ \E ok \in BOOLEAN :
          file_lines' = IF ok THEN Append(file_lines, norm[i + 1])
                        ELSE file_lines
    /\ i' = i + 1
    /\ pc' = IF i + 1 < Len(norm) THEN "write_norm" ELSE "close"
    /\ UNCHANGED <<argc, domain, output_file, exit_code, stderr, log,
                   log_exists, cwdWritable, out_exists, out_modified,
                   saved_msg, probeConn, conn, res, raw, unique, wild, norm,
                   trace>>

\* lines 207-215
CloseOutput ==
    /\ pc = "close"
    /\ saved_msg' = TRUE
    /\ exit_code' = 0
    /\ pc' = "exit"
    /\ trace' = Append(trace, "write")
    /\ UNCHANGED <<argc, domain, output_file, stderr, log, log_exists,
                   cwdWritable, out_exists, out_modified, file_lines,
                   stdout_lines, probeConn, conn, res, raw, unique, wild,
                   norm, i>>

Next ==
    \/ Start
    \/ ValidateDomain
    \/ CheckConnectivity
    \/ CheckOutputDir
    \/ Connect
    \/ ExecQuery
    \/ CollectRows
    \/ Deduplicate
    \/ PartitionIdentities
    \/ SortPartitions
    \/ OpenOutput
    \/ WriteWild
    \/ WriteNorm
    \/ CloseOutput

Spec == Init /\ [][Next]_vars

(***************************************************************************)
(* The same program, started also with the domain arguments at the length  *)
(* limit: 255 and 256 characters.                                          *)
(***************************************************************************)
InitLong == InitWith(Domains) \/ InitWith(LongDomains)

SpecLong == InitLong /\ [][Next]_vars

(***************************************************************************)
(* The result processor and the output writer on their own: the query of   *)
(* domain "a" has just returned its rows, in a writable directory that     *)
(* holds neither the output file nor the log.                              *)
(***************************************************************************)
InitProc ==
    /\ InitCommon
    /\ pc = "collect"
    /\ argc = 2
    /\ domain = <<97>>
    /\ output_file = snprintf_output_file(<<97>>)
    /\ log_exists = FALSE
    /\ cwdWritable = TRUE
    /\ out_exists = FALSE
    /\ probeConn = "closed"
    /\ conn = "open"
    /\ res \in RowSeqs(ProcMaxRows)
    /\ trace = <<"validate", "probe", "query">>

NextProc ==
    \/ CollectRows
    \/ Deduplicate
    \/ PartitionIdentities
    \/ SortPartitions
    \/ OpenOutput
    \/ WriteWild
    \/ WriteNorm
    \/ CloseOutput

SpecProc == InitProc /\ [][NextProc]_vars

(***************************************************************************)
(* Vocabulary of the properties                                            *)
(***************************************************************************)
Range(s) == {s[k] : k \in 1..Len(s)}

AllowedChars == (97..122) \cup (65..90) \cup (48..57) \cup {46, 45}

\* the domain argument breaks the length rule or the character-set rule
DomainViolatesRule ==
    \/ Len(domain) = 0
    \/ Len(domain) > 255
    \/ \E k \in 1..Len(domain) : domain[k] \notin AllowedChars

\* a is strictly before b in byte-wise lexicographic order
ByteLess(a, b) ==
    \E k \in 1..(Len(b)) :
        /\ \A m \in 1..(k - 1) : m <= Len(a) /\ a[m] = b[m]
        /\ (k > Len(a) \/ a[k] < b[k])

NonDecreasing(s) ==
    \A k \in 1..(Len(s) - 1) : s[k] = s[k + 1] \/ ByteLess(s[k], s[k + 1])

HasWildPrefix(s) == Len(s) >= 2 /\ s[1] = 42 /\ s[2] = 46

FirstIndex(s, v) ==
    CHOOSE k \in 1..Len(s) : s[k] = v /\ \A m \in 1..(k - 1) : s[m] # v

PipelineOrder == <<"validate", "probe", "query", "process", "write">>

DedupDone ==
    pc \in {"partition", "sort", "open", "write_wild", "write_norm", "close",
            "exit"}

PartitionDone ==
    pc \in {"sort", "open", "write_wild", "write_norm", "close", "exit"}

QuerySucceeded == Len(trace) >= 3 /\ trace[3] = "query"

\* the query returned no row, or only NULL or empty values
EmptyResult == \A k \in 1..Len(res) : PQgetvalue(res[k]) = <<>>

LastError == stderr[Len(stderr)].msg

(***************************************************************************)
(* C1 as stated: a domain argument that is empty, longer than 255          *)
(* characters or holds a character outside [a-zA-Z0-9.-] is rejected with  *)
(* a non-zero exit code, no database connection is opened and no file at   *)
(* all is opened, created or written in that execution.                    *)
(***************************************************************************)
C1_RejectedWithoutAnyFileIO ==
    (argc = 2 /\ DomainViolatesRule) =>
        /\ pc \in {"start", "validate", "exit"}
        /\ pc = "exit" => exit_code = 1
        /\ probeConn = "none" /\ conn = "none"
        /\ ~out_modified /\ file_lines = <<>>
        /\ log = <<>>

(***************************************************************************)
(* C1 amended: a domain argument that breaks the length or character-set   *)
(* rule is rejected by validation with exit code 1; no database connection *)
(* is opened and the output file is neither opened, created nor written.   *)
(* The only file the execution may open is the error log, to which         *)
(* fatal_error appends the message.                                        *)
(***************************************************************************)
C1_RejectedWithoutNetworkOrOutput ==
    (argc = 2 /\ DomainViolatesRule) =>
        /\ pc \in {"start", "validate", "exit"}
        /\ pc = "exit" => exit_code = 1
        /\ probeConn = "none" /\ conn = "none"
        /\ ~out_modified /\ file_lines = <<>> /\ stdout_lines = <<>>
        /\ trace = <<>>

C1_Witness ==
    /\ argc = 2 /\ Len(domain) > 255
    /\ pc = "exit" /\ exit_code = 1
    /\ LastError = "Domain length must be 1-255 characters"

(***************************************************************************)
(* C2: on a successful run the lines written are the wildcard identities   *)
(* of the raw rows, each once, in non-decreasing byte-wise order, followed *)
(* by the other identities, each once, in non-decreasing byte-wise order:  *)
(* sorting loses, adds and duplicates nothing.                             *)
(***************************************************************************)
C2_SortedWildThenNorm ==
    (pc = "exit" /\ exit_code = 0) =>
        LET W  == {r \in Range(raw) : HasWildPrefix(r)}
            N  == {r \in Range(raw) : ~HasWildPrefix(r)}
            nw == Cardinality(W)
            w  == SubSeq(stdout_lines, 1, nw)
            n  == SubSeq(stdout_lines, nw + 1, Len(stdout_lines))
        IN  /\ Len(stdout_lines) = nw + Cardinality(N)
            /\ Range(w) = W /\ Range(n) = N
            /\ NonDecreasing(w) /\ NonDecreasing(n)
            /\ w = wild /\ n = norm
            /\ Len(file_lines) = Len(stdout_lines) => file_lines = stdout_lines

C2_Witness ==
    /\ pc = "exit" /\ exit_code = 0
    /\ Len(raw) = 3 /\ Len(stdout_lines) = 3
    /\ ~NonDecreasing(raw)
    /\ Len(norm) = 3

(***************************************************************************)
(* C3: the deduplicated sequence has as many elements as the raw sequence  *)
(* has distinct values, holds every distinct value exactly once, and keeps *)
(* the values in the order of their first occurrence.                      *)
(***************************************************************************)
C3_Deduplication ==
    DedupDone =>
        /\ Len(unique) = Cardinality(Range(raw))
        /\ Range(unique) = Range(raw)
        /\ \A a, b \in 1..Len(unique) : a # b => unique[a] # unique[b]
        /\ \A a, b \in 1..Len(unique) :
               a < b => FirstIndex(raw, unique[a]) < FirstIndex(raw, unique[b])

C3_Witness ==
    /\ pc = "partition"
    /\ Len(raw) = 3 /\ raw[1] = raw[3] /\ raw[1] # raw[2]
    /\ Len(unique) = 2

(***************************************************************************)
(* C4: every deduplicated identity whose first two characters are "*." is  *)
(* in the wildcard partition, every other one (also one shorter than two   *)
(* characters) is in the normal partition; the partitions are disjoint and *)
(* together hold exactly the deduplicated identities.                      *)
(***************************************************************************)
C4_Partition ==
    PartitionDone =>
        /\ \A u \in Range(unique) :
               IF HasWildPrefix(u)
               THEN u \in Range(wild) /\ u \notin Range(norm)
               ELSE u \in Range(norm) /\ u \notin Range(wild)
        /\ Range(wild) \cap Range(norm) = {}
        /\ Range(wild) \cup Range(norm) = Range(unique)
        /\ Len(wild) + Len(norm) = Len(unique)

C4_Witness ==
    /\ pc = "sort"
    /\ <<42>> \in Range(norm)
    /\ <<42, 97>> \in Range(norm)
    /\ <<42, 46>> \in Range(wild)

(***************************************************************************)
(* C5 as stated: when the process ends, either the output file and stdout  *)
(* hold the same complete sequence of identities, or the process aborted   *)
(* before either was written to.                                           *)
(***************************************************************************)
C5_NoPartialSuccess ==
    pc = "exit" =>
        \/ /\ exit_code = 0
           /\ stdout_lines = wild \o norm
           /\ file_lines = stdout_lines
        \/ /\ exit_code = 1
           /\ ~out_modified /\ file_lines = <<>> /\ stdout_lines = <<>>

(***************************************************************************)
(* C6 as stated: every error ends the process with a non-zero status after *)
(* a timestamped report on standard error and the same entry in the log    *)
(* file; status 0 means no error occurred and the identities were written. *)
(***************************************************************************)
C6_EveryErrorReportedAndLogged ==
    pc = "exit" =>
        /\ exit_code # 0 =>
               /\ Len(stderr) = 1 /\ stderr[1].ts
               /\ log = stderr
        /\ exit_code = 0 =>
               /\ stderr = <<>>
               /\ file_lines = wild \o norm

(***************************************************************************)
(* C7: the stages complete in the order validate, probe, query, process,   *)
(* write; the output file is created or truncated only after validation,   *)
(* the probe and the query have succeeded; a run that ends in an error     *)
(* leaves the output file neither created nor modified.                    *)
(***************************************************************************)
C7_FailFastOrdering ==
    /\ Len(trace) <= Len(PipelineOrder)
    /\ trace = SubSeq(PipelineOrder, 1, Len(trace))
    /\ out_modified =>
           /\ Len(trace) >= 4
           /\ ~DomainViolatesRule
           /\ probeConn = "closed" /\ conn = "closed"
    /\ (pc = "exit" /\ exit_code = 1) =>
           ~out_modified /\ file_lines = <<>>

C7_Witness ==
    /\ pc = "exit" /\ exit_code = 1
    /\ trace = <<"validate">>
    /\ probeConn = "bad"
    /\ ~out_modified

(***************************************************************************)
(* C8 as stated: with a validated domain and a read-only directory for the *)
(* output file, the directory check ends the run with "Output directory is *)
(* not writable" before anything else is attempted, and no file is         *)
(* modified.                                                               *)
(***************************************************************************)
C8_ReadOnlyDirectoryRejected ==
    (~cwdWritable /\ Len(trace) >= 2 /\ pc # "dircheck") =>
        /\ pc = "exit" /\ exit_code = 1
        /\ LastError = "Output directory is not writable"
        /\ ~out_modified

C10_ConnectionsClosedOnEveryPath ==
    /\ ~(probeConn = "open" /\ conn = "open")
    /\ pc = "exit" => (probeConn # "open" /\ conn # "open")

====
